---------------------------- MODULE Spec2Model ----------------------------
(***************************************************************************)
(* Conway's game of life (life.c): the two bit-packed screens, the pointer *)
(* pair that designates the current and the other screen, tick(), the      *)
(* control loop of main() and the part of printscreen() that decides what  *)
(* is drawn.                                                               *)
(***************************************************************************)
EXTENDS Integers, Sequences, FiniteSets, TLC

(***************************************************************************)
(* Bounds of the model.  The source has Width = 200 and Height = 150; the  *)
(* model keeps the code's loops and boundary tests and scales the grid.    *)
(***************************************************************************)
Width == 3
Height == 3
\* rand() outcomes of one initialize() in Spec repeat with this period
RandPeriod == 2
\* tick() is not run once generations has reached MaxGen
MaxGen == 2
\* SDLK_DOWN is not taken once delay has reached MaxDelaySteps steps of 50 ms
MaxDelaySteps == 11

(***************************************************************************)
(* Program constants.                                                      *)
(***************************************************************************)
DEFAULT_DELAY == 500
DelayStep == 50
LifeCell == 6904365
DeadCell == 16777164
CharBits == 8

Rows == 0 .. (Height - 1)
Cols == 0 .. (Width - 1)

\* chars of one row: Width >> 3 in the source, where Width is a multiple of
\* 8; rounded up here so that a scaled row still has a char for every column
RowChars == (Width + CharBits - 1) \div CharBits

VARIABLES screen1, screen2, screen, oscreen, generations, died, born,
          paused, delay, done, pc, exit_status, window_title, surface,
          last, before, toggles

vars == <<screen1, screen2, screen, oscreen, generations, died, born,
          paused, delay, done, pc, exit_status, window_title, surface,
          last, before, toggles>>

(***************************************************************************)
(* Bit macros.  A char is modelled by its bit pattern 0 .. 255.            *)
(***************************************************************************)
IsSet(ch, bitnum) == (ch \div (2 ^ bitnum)) % 2 = 1
SetBit(ch, bitnum) == IF IsSet(ch, bitnum) THEN ch ELSE ch + (2 ^ bitnum)
ClearBit(ch, bitnum) == IF IsSet(ch, bitnum) THEN ch - (2 ^ bitnum) ELSE ch
BitOffset(col) == col \div 8
BitPos(col) == col % 8

\* static storage: all chars zero
ZeroScreen == [row \in Rows |-> [i \in 0 .. (RowChars - 1) |-> 0]]

(***************************************************************************)
(* The program's globals as one record m: the two arrays, the two pointers *)
(* (a pointer is the name of the array it points to), the counters, paused *)
(* and delay, and main()'s done.                                           *)
(* The loops of initialize() and tick() thread m through their cells in    *)
(* row-major order, so every read sees the writes made before it.          *)
(***************************************************************************)
Deref(m, p) == IF p = "screen1" THEN m.screen1 ELSE m.screen2

\* IsSet(p[row][BitOffset(col)], BitPos(col))
CellIsSet(m, p, row, col) == IsSet(Deref(m, p)[row][BitOffset(col)], BitPos(col))

\* SetBit(p[row][BitOffset(col)], BitPos(col))
CellSet(m, p, row, col) ==
    IF p = "screen1"
    THEN [m EXCEPT !.screen1[row][BitOffset(col)] = SetBit(@, BitPos(col))]
    ELSE [m EXCEPT !.screen2[row][BitOffset(col)] = SetBit(@, BitPos(col))]

\* ClearBit(p[row][BitOffset(col)], BitPos(col))
CellClear(m, p, row, col) ==
    IF p = "screen1"
    THEN [m EXCEPT !.screen1[row][BitOffset(col)] = ClearBit(@, BitPos(col))]
    ELSE [m EXCEPT !.screen2[row][BitOffset(col)] = ClearBit(@, BitPos(col))]

\* mutant: the else branch points both pointers at screen1
swapscreenSlip(m) ==
    IF m.screen = "screen1"
    THEN [m EXCEPT !.screen = "screen2", !.oscreen = "screen1"]
    ELSE [m EXCEPT !.screen = "screen1", !.oscreen = "screen1"]

\* mutant: the test is left out and screen2 made current every time
swapscreenOneWay(m) == [m EXCEPT !.screen = "screen2", !.oscreen = "screen1"]

swapscreen(m) ==
    IF m.screen = "screen1"
    THEN [m EXCEPT !.screen = "screen2", !.oscreen = "screen1"]
    ELSE [m EXCEPT !.screen = "screen1", !.oscreen = "screen2"]

(***************************************************************************)
(* initialize(): flips[k] is the outcome of rand() >= (RAND_MAX >> 1) for  *)
(* the k-th cell in row-major order.                                       *)
(***************************************************************************)
InitializeCell(m, flips, row, col) ==
    IF flips[row * Width + col]
    THEN CellSet(m, m.screen, row, col)
    ELSE CellClear(m, m.screen, row, col)

RECURSIVE InitializeLoop(_, _, _)
InitializeLoop(m, flips, k) ==
    IF k = Width * Height
    THEN m
    ELSE InitializeLoop(InitializeCell(m, flips, k \div Width, k % Width),
                        flips, k + 1)

\* mutant: died and born are left as they are
initializeKeepsCounters(m, flips) ==
    InitializeLoop([m EXCEPT !.generations = 0,
                             !.screen = "screen1", !.oscreen = "screen2"],
                   flips, 0)

\* mutant: the pointers are left as they are, so the cells are written
\* through whatever screen points to
initializeThroughScreen(m, flips) ==
    InitializeLoop([m EXCEPT !.generations = 0, !.died = 0, !.born = 0],
                   flips, 0)

initialize(m, flips) ==
    InitializeLoop([m EXCEPT !.generations = 0, !.died = 0, !.born = 0,
                             !.screen = "screen1", !.oscreen = "screen2"],
                   flips, 0)

\* every sequence of rand() outcomes
AllFlips == [0 .. (Width * Height - 1) -> BOOLEAN]
\* the sequences that repeat with period RandPeriod
PeriodicFlips ==
    {[k \in 0 .. (Width * Height - 1) |-> f[k % RandPeriod]] :
        f \in [0 .. (RandPeriod - 1) -> BOOLEAN]}

(***************************************************************************)
(* tick(): the neighbour count of one cell, read through screen.           *)
(***************************************************************************)
\* mutant: the three neighbours of the row above are read through oscreen,
\* where this pass has already written them
NeighboursReadWritten(m, row, col) ==
    LET Live(r, c) == IF CellIsSet(m, m.screen, r, c) THEN 1 ELSE 0
        Written(r, c) == IF CellIsSet(m, m.oscreen, r, c) THEN 1 ELSE 0
    IN  (IF col > 0 THEN Live(row, col - 1) ELSE 0)
      + (IF col < Width - 1 THEN Live(row, col + 1) ELSE 0)
      + (IF row > 0 THEN Written(row - 1, col) ELSE 0)
      + (IF row < Height - 1 THEN Live(row + 1, col) ELSE 0)
      + (IF row > 0 /\ col > 0 THEN Written(row - 1, col - 1) ELSE 0)
      + (IF row > 0 /\ col < Width - 1 THEN Written(row - 1, col + 1) ELSE 0)
      + (IF row < Height - 1 /\ col > 0 THEN Live(row + 1, col - 1) ELSE 0)
      + (IF row < Height - 1 /\ col < Width - 1
         THEN Live(row + 1, col + 1) ELSE 0)

\* mutant: the grid wraps round at its edges
NeighboursWrap(m, row, col) ==
    LET Live(r, c) ==
            IF CellIsSet(m, m.screen, r % Height, c % Width) THEN 1 ELSE 0
    IN  Live(row, col - 1) + Live(row, col + 1)
      + Live(row - 1, col) + Live(row + 1, col)
      + Live(row - 1, col - 1) + Live(row - 1, col + 1)
      + Live(row + 1, col - 1) + Live(row + 1, col + 1)

\* mutant: the diagonal neighbours are not counted
NeighboursNoDiagonals(m, row, col) ==
    LET Live(r, c) == IF CellIsSet(m, m.screen, r, c) THEN 1 ELSE 0
    IN  (IF col > 0 THEN Live(row, col - 1) ELSE 0)
      + (IF col < Width - 1 THEN Live(row, col + 1) ELSE 0)
      + (IF row > 0 THEN Live(row - 1, col) ELSE 0)
      + (IF row < Height - 1 THEN Live(row + 1, col) ELSE 0)

\* the cells tick() reads for the count of cell (row, col): its eight guarded
\* reads, in the order of the source
NeighbourReads(row, col) ==
        \* left and right neighbours
        (IF col > 0 THEN <<<<row, col - 1>>>> ELSE <<>>)
     \o (IF col < Width - 1 THEN <<<<row, col + 1>>>> ELSE <<>>)
        \* top and bottom neighbours
     \o (IF row > 0 THEN <<<<row - 1, col>>>> ELSE <<>>)
     \o (IF row < Height - 1 THEN <<<<row + 1, col>>>> ELSE <<>>)
        \* top and bottom diagonal neighbours
     \o (IF row > 0 /\ col > 0 THEN <<<<row - 1, col - 1>>>> ELSE <<>>)
     \o (IF row > 0 /\ col < Width - 1 THEN <<<<row - 1, col + 1>>>> ELSE <<>>)
     \o (IF row < Height - 1 /\ col > 0 THEN <<<<row + 1, col - 1>>>> ELSE <<>>)
     \o (IF row < Height - 1 /\ col < Width - 1
         THEN <<<<row + 1, col + 1>>>> ELSE <<>>)

\* the reads of every cell; they depend on the cell only, not on the arrays
ReadsOfCell == [rc \in Rows \X Cols |-> NeighbourReads(rc[1], rc[2])]

\* ++neighbours for each of them that IsSet
Neighbours(m, row, col) ==
    LET reads == ReadsOfCell[<<row, col>>]
    IN  Cardinality({i \in DOMAIN reads :
            CellIsSet(m, m.screen, reads[i][1], reads[i][2])})

\* mutant: the new value of a cell is written through screen, in place
TickCellInPlace(m, row, col) ==
    LET neighbours == Neighbours(m, row, col)
    IN  IF CellIsSet(m, m.screen, row, col)
        THEN IF neighbours < 2 \/ neighbours > 3
             THEN CellClear([m EXCEPT !.died = @ + 1], m.screen, row, col)
             ELSE CellSet(m, m.screen, row, col)
        ELSE IF neighbours = 3
             THEN CellSet([m EXCEPT !.born = @ + 1], m.screen, row, col)
             ELSE CellClear(m, m.screen, row, col)

\* mutant: a live cell with three neighbours dies
TickCellCrowdedAtThree(m, row, col) ==
    LET neighbours == Neighbours(m, row, col)
    IN  IF CellIsSet(m, m.screen, row, col)
        THEN IF neighbours < 2 \/ neighbours >= 3
             THEN CellClear([m EXCEPT !.died = @ + 1], m.oscreen, row, col)
             ELSE CellSet(m, m.oscreen, row, col)
        ELSE IF neighbours = 3
             THEN CellSet([m EXCEPT !.born = @ + 1], m.oscreen, row, col)
             ELSE CellClear(m, m.oscreen, row, col)

\* mutant: a dead cell that stays dead is not written
TickCellLeavesDead(m, row, col) ==
    LET neighbours == Neighbours(m, row, col)
    IN  IF CellIsSet(m, m.screen, row, col)
        THEN IF neighbours < 2 \/ neighbours > 3
             THEN CellClear([m EXCEPT !.died = @ + 1], m.oscreen, row, col)
             ELSE CellSet(m, m.oscreen, row, col)
        ELSE IF neighbours = 3
             THEN CellSet([m EXCEPT !.born = @ + 1], m.oscreen, row, col)
             ELSE m

\* mutant: born is incremented for a cell that lives on, too
TickCellCountsSurvivors(m, row, col) ==
    LET neighbours == Neighbours(m, row, col)
    IN  IF CellIsSet(m, m.screen, row, col)
        THEN IF neighbours < 2 \/ neighbours > 3
             THEN CellClear([m EXCEPT !.died = @ + 1], m.oscreen, row, col)
             ELSE CellSet([m EXCEPT !.born = @ + 1], m.oscreen, row, col)
        ELSE IF neighbours = 3
             THEN CellSet([m EXCEPT !.born = @ + 1], m.oscreen, row, col)
             ELSE CellClear(m, m.oscreen, row, col)

\* copy and update screen to other screen
TickCell(m, row, col) ==
    LET neighbours == Neighbours(m, row, col)
    IN  IF CellIsSet(m, m.screen, row, col)
        THEN IF neighbours < 2 \/ neighbours > 3
             THEN CellClear([m EXCEPT !.died = @ + 1],
                            m.oscreen, row, col)
             ELSE CellSet(m, m.oscreen, row, col)
        ELSE IF neighbours = 3
             THEN CellSet([m EXCEPT !.born = @ + 1],
                          m.oscreen, row, col)
             ELSE CellClear(m, m.oscreen, row, col)

RECURSIVE TickLoop(_, _)
TickLoop(m, k) ==
    IF k = Width * Height
    THEN m
    ELSE TickLoop(TickCell(m, k \div Width, k % Width), k + 1)

\* mutant: the counters are not reset
TickResetNone(m) == m

\* died = born = 0
TickReset(m) == [m EXCEPT !.died = 0, !.born = 0]

\* mutant: generations is not incremented
TickFinishNoCount(m) == swapscreen(m)

\* swapscreen(); ++generations.  generations is an unsigned int and wraps at
\* 2^32; the model stops ticking at MaxGen, long before
TickFinish(m) ==
    [swapscreen(m) EXCEPT !.generations = @ + 1]

\* mutant: the counters are reset before paused is tested
tickResetsWhenPaused(m) ==
    IF m.paused
    THEN TickReset(m)
    ELSE TickFinish(TickLoop(TickReset(m), 0))

tick(m) ==
    IF m.paused
    THEN m
    ELSE TickFinish(TickLoop(TickReset(m), 0))

(***************************************************************************)
(* printscreen(): the window title and, cell by cell, the colour plot()    *)
(* gives the cell's block of the surface.                                  *)
(***************************************************************************)
PausedTitle == <<"- PAUSED -">>
StatusTitle(m) == <<"generation", m.generations, m.died, m.born>>

Plotted(m) ==
    [row \in Rows |-> [col \in Cols |->
        IF CellIsSet(m, m.screen, row, col) THEN LifeCell ELSE DeadCell]]

\* mutant: the cells are plotted when paused too
printscreenWhilePaused(m, surf) ==
    IF m.paused
    THEN [title |-> PausedTitle, surface |-> Plotted(m)]
    ELSE [title |-> StatusTitle(m), surface |-> Plotted(m)]

printscreen(m, surf) ==
    IF m.paused
    THEN [title |-> PausedTitle, surface |-> surf]
    ELSE [title |-> StatusTitle(m), surface |-> Plotted(m)]

\* the surface before anything was plotted
BlankSurface == [row \in Rows |-> [col \in Cols |-> 0]]
\* the title SDL_CreateWindow() gives the window
CreatedTitle == <<"Conwell's Game Of Life">>

(***************************************************************************)
(* main(): the handlers of the event switch.                               *)
(***************************************************************************)
Events == {"SDL_QUIT", "SDLK_q", "SDLK_r", "SDLK_DOWN", "SDLK_UP", "SDLK_d",
           "SDLK_SPACE", "SDLK_other", "SDL_other"}

KeyDown(m) == [m EXCEPT !.delay = @ + DelayStep]
\* mutant: the test is delay >= 50
KeyUpToZero(m) ==
    IF m.delay >= DelayStep THEN [m EXCEPT !.delay = @ - DelayStep] ELSE m

KeyUp(m) == IF m.delay > DelayStep THEN [m EXCEPT !.delay = @ - DelayStep] ELSE m
KeyD(m) == [m EXCEPT !.delay = DEFAULT_DELAY]
\* mutant: SDLK_SPACE pauses and never resumes
KeySpacePauseOnly(m) == [m EXCEPT !.paused = TRUE]

KeySpace(m) == IF m.paused THEN [m EXCEPT !.paused = FALSE]
                           ELSE [m EXCEPT !.paused = TRUE]
KeyQ(m) == [m EXCEPT !.done = TRUE]

\* mutant: once done is set the events left in the queue are dropped
HandleEventUntilQuit(m, e, flips) ==
    IF m.done
    THEN m
    ELSE CASE e \in {"SDL_QUIT", "SDLK_q"} -> KeyQ(m)
           [] e = "SDLK_r" -> initialize(m, flips)
           [] e = "SDLK_DOWN" -> KeyDown(m)
           [] e = "SDLK_UP" -> KeyUp(m)
           [] e = "SDLK_d" -> KeyD(m)
           [] e = "SDLK_SPACE" -> KeySpace(m)
           [] OTHER -> m

HandleEvent(m, e, flips) ==
    CASE e \in {"SDL_QUIT", "SDLK_q"} -> KeyQ(m)
      [] e = "SDLK_r" -> initialize(m, flips)
      [] e = "SDLK_DOWN" -> KeyDown(m)
      [] e = "SDLK_UP" -> KeyUp(m)
      [] e = "SDLK_d" -> KeyD(m)
      [] e = "SDLK_SPACE" -> KeySpace(m)
      [] OTHER -> m

(***************************************************************************)
(* The state machine.  pc is main()'s position and exit_status the value   *)
(* main() has returned, <<>> while it runs.  last names the step taken     *)
(* last, before holds the scalars as they were before it and toggles is    *)
(* the number of SDLK_SPACE events handled, modulo 2 (history variables,   *)
(* read by no step).                                                       *)
(***************************************************************************)
Globals ==
    [screen1 |-> screen1, screen2 |-> screen2, screen |-> screen,
     oscreen |-> oscreen, generations |-> generations, died |-> died,
     born |-> born, paused |-> paused, delay |-> delay, done |-> done]

SetGlobals(m) ==
    /\ screen1' = m.screen1
    /\ screen2' = m.screen2
    /\ screen' = m.screen
    /\ oscreen' = m.oscreen
    /\ generations' = m.generations
    /\ died' = m.died
    /\ born' = m.born
    /\ paused' = m.paused
    /\ delay' = m.delay
    /\ done' = m.done

Scalars(m) ==
    [screen |-> m.screen, oscreen |-> m.oscreen, generations |-> m.generations, died |-> m.died,
     born |-> m.born, paused |-> m.paused, delay |-> m.delay]

IsGlobals(m) ==
    /\ screen1 = m.screen1
    /\ screen2 = m.screen2
    /\ screen = m.screen
    /\ oscreen = m.oscreen
    /\ generations = m.generations
    /\ died = m.died
    /\ born = m.born
    /\ paused = m.paused
    /\ delay = m.delay
    /\ done = m.done

\* static storage before main() runs; the pointers are set by initialize()
Static ==
    [screen1 |-> ZeroScreen, screen2 |-> ZeroScreen, screen |-> "NULL",
     oscreen |-> "NULL", generations |-> 0, died |-> 0, born |-> 0,
     paused |-> FALSE, delay |-> DEFAULT_DELAY, done |-> FALSE]

\* the state when the loop of main() is entered: initialize(), init_sdl()
Started(flips) ==
    /\ IsGlobals(initialize(Static, flips))
    /\ pc = "printscreen"
    /\ window_title = CreatedTitle
    /\ surface = BlankSurface
    /\ last = "initialize"
    /\ before = Scalars(Static)
    /\ exit_status = <<>>
    /\ toggles = 0

Init == \E flips \in PeriodicFlips : Started(flips)

PrintScreen ==
    /\ pc = "printscreen"
    /\ LET out == printscreen(Globals, surface)
       IN  /\ window_title' = out.title
           /\ surface' = out.surface
    /\ pc' = "SDL_Delay"
    /\ last' = "printscreen"
    /\ before' = Scalars(Globals)
    /\ SetGlobals(Globals)
    /\ UNCHANGED <<exit_status, toggles>>

Delay ==
    /\ pc = "SDL_Delay"
    /\ pc' = "tick"
    /\ last' = "SDL_Delay"
    /\ before' = Scalars(Globals)
    /\ SetGlobals(Globals)
    /\ UNCHANGED <<window_title, surface, exit_status, toggles>>

\* one call of tick(); the model stops ticking at MaxGen generations
TickCall ==
    /\ paused \/ generations < MaxGen
    /\ SetGlobals(tick(Globals))
    /\ last' = IF paused THEN "tick_paused" ELSE "tick"
    /\ before' = Scalars(Globals)
    /\ UNCHANGED <<window_title, surface, exit_status, toggles>>

Tick ==
    /\ pc = "tick"
    /\ TickCall
    /\ pc' = "SDL_PollEvent"

\* SDL_PollEvent() returns an event; the model stops lengthening the delay
\* at MaxDelaySteps steps
PollEvent ==
    /\ pc = "SDL_PollEvent"
    /\ \/ \E e \in Events \ {"SDLK_r"} :
            /\ e = "SDLK_DOWN" => delay < MaxDelaySteps * DelayStep
            /\ SetGlobals(HandleEvent(Globals, e, <<>>))
            /\ last' = e
       \/ \E flips \in PeriodicFlips :
            /\ SetGlobals(HandleEvent(Globals, "SDLK_r", flips))
            /\ last' = "SDLK_r"
    /\ before' = Scalars(Globals)
    /\ toggles' = IF last' = "SDLK_SPACE" THEN 1 - toggles ELSE toggles
    /\ UNCHANGED <<pc, window_title, surface, exit_status>>

\* mutant: the loop goes round once more whatever done is
WhileNotDoneIgnored(m) == "printscreen"

\* while (!done): where main() goes on when the event loop has ended
WhileNotDone(m) == IF m.done THEN "SDL_Quit" ELSE "printscreen"

\* SDL_PollEvent() returns 0: the while (!done) test
PollEmpty ==
    /\ pc = "SDL_PollEvent"
    /\ pc' = WhileNotDone(Globals)
    /\ last' = "drained"
    /\ before' = Scalars(Globals)
    /\ SetGlobals(Globals)
    /\ UNCHANGED <<window_title, surface, exit_status, toggles>>

\* SDL_Quit(); return 0
Quit ==
    /\ pc = "SDL_Quit"
    /\ pc' = "returned"
    /\ exit_status' = <<0>>
    /\ last' = "SDL_Quit"
    /\ before' = Scalars(Globals)
    /\ SetGlobals(Globals)
    /\ UNCHANGED <<window_title, surface, toggles>>

Next == PrintScreen \/ Delay \/ Tick \/ PollEvent \/ PollEmpty \/ Quit

Spec == Init /\ [][Next]_vars

(***************************************************************************)
(* TickSpec: tick() called again and again on every grid initialize() can  *)
(* produce, with no event in between.                                      *)
(***************************************************************************)
TickInit ==
    \E flips \in AllFlips :
        /\ IsGlobals(initialize(Static, flips))
        /\ pc = "tick"
        /\ window_title = CreatedTitle
        /\ surface = BlankSurface
        /\ last = "initialize"
        /\ before = Scalars(Static)
        /\ exit_status = <<>>
        /\ toggles = 0

TickNext == TickCall /\ UNCHANGED pc

TickSpec == TickInit /\ [][TickNext]_vars

(***************************************************************************)
(* SwapSpec: swapscreen() called again and again, with no tick() in        *)
(* between, on every grid initialize() can produce.                        *)
(***************************************************************************)
SwapCall ==
    /\ SetGlobals(swapscreen(Globals))
    /\ last' = "swapscreen"
    /\ before' = Scalars(Globals)
    /\ UNCHANGED <<pc, window_title, surface, exit_status, toggles>>

SwapSpec == TickInit /\ [][SwapCall]_vars

(***************************************************************************)
(* What the claims are stated with: a screen read cell by cell, and the    *)
(* rule of the game on a grid with hard edges, counted over the set of     *)
(* adjacent cells that lie inside the grid.                                *)
(***************************************************************************)
\* the cells of an array as a grid of booleans
Grid(array) ==
    [row \in Rows |-> [col \in Cols |->
        IsSet(array[row][BitOffset(col)], BitPos(col))]]

\* the grid designated current and the other one
CurrentGrid == Grid(IF screen = "screen1" THEN screen1 ELSE screen2)
OtherGrid == Grid(IF oscreen = "screen1" THEN screen1 ELSE screen2)

Adjacent(row, col) ==
    {rc \in Rows \X Cols :
        /\ rc # <<row, col>>
        /\ rc[1] - row \in {-1, 0, 1}
        /\ rc[2] - col \in {-1, 0, 1}}

AdjacentTo == [rc \in Rows \X Cols |-> Adjacent(rc[1], rc[2])]

LiveNeighbours(g, row, col) ==
    Cardinality({rc \in AdjacentTo[<<row, col>>] : g[rc[1]][rc[2]]})

LifeRule(g, row, col) ==
    \/ g[row][col] /\ LiveNeighbours(g, row, col) \in {2, 3}
    \/ ~g[row][col] /\ LiveNeighbours(g, row, col) = 3

CellsWhere(P(_, _)) == Cardinality({rc \in Rows \X Cols : P(rc[1], rc[2])})

\* the step just taken was a tick() that ran, resp. one that found paused set
TickRan == last' = "tick"
TickSkipped == last' = "tick_paused"

\* C1: after a tick() run with paused false, every cell of the new current
\* grid is alive exactly when the rule of the game, applied to the grid that
\* was current when the tick started and counting only the adjacent cells
\* inside the grid, says so.
C1_TickAppliesRule ==
    [][TickRan =>
        \A row \in Rows, col \in Cols :
            CurrentGrid'[row][col] <=> LifeRule(CurrentGrid, row, col)]_vars

\* a tick has run in which cells were born, died and survived
C1_Witness ==
    /\ last = "tick"
    /\ born > 0
    /\ died > 0
    /\ \E row \in Rows, col \in Cols :
          CurrentGrid[row][col] /\ OtherGrid[row][col]

\* C2: a tick() run with paused false leaves the array that was current when
\* it started cell for cell as it was; that array is the other one afterwards.
C2_CurrentNotWritten ==
    [][TickRan =>
        /\ oscreen' = screen
        /\ OtherGrid' = CurrentGrid
        /\ (IF screen = "screen1" THEN screen1' = screen1
                                  ELSE screen2' = screen2)]_vars

\* a tick has run that changed the grid, and the old grid is still there
C2_Witness ==
    /\ last = "tick"
    /\ born + died > 0
    /\ OtherGrid # CurrentGrid
    /\ \E row \in Rows, col \in Cols : OtherGrid[row][col]

\* C4: after a tick() run with paused false, born is the number of cells dead
\* before and alive after, and died the number alive before and dead after,
\* whatever the two counters held before.
C4_CountersPerGeneration ==
    [][TickRan =>
        LET old == CurrentGrid
            new == CurrentGrid'
            Born(row, col) == ~old[row][col] /\ new[row][col]
            Died(row, col) == old[row][col] /\ ~new[row][col]
        IN  /\ born' = CellsWhere(Born)
            /\ died' = CellsWhere(Died)]_vars

\* a tick has run whose counters differ from the non-zero ones before it
C4_Witness ==
    /\ last = "tick"
    /\ before.born > 0
    /\ before.died > 0
    /\ born < before.born
    /\ died # before.died

\* C3: a tick() called with paused set changes neither array, neither
\* pointer, nor generations, born or died.
C3_PausedTickNoOp ==
    [][TickSkipped =>
        UNCHANGED <<screen1, screen2, screen, oscreen, generations, born,
                    died>>]_vars

\* tick() was called with paused set after a generation with births and deaths
C3_Witness ==
    /\ last = "tick_paused"
    /\ paused
    /\ generations > 0
    /\ born > 0
    /\ died > 0

\* C5: delay is at least 50 in every state, and SDLK_UP at delay = 50 leaves
\* it at 50.
C5_DelayFloor ==
    /\ [](delay >= DelayStep)
    /\ [][last' = "SDLK_UP" /\ delay = DelayStep => delay' = DelayStep]_vars

\* SDLK_UP was handled when delay was 50
C5_Witness ==
    /\ last = "SDLK_UP"
    /\ before.delay = DelayStep
    /\ delay = DelayStep

\* C6: SDLK_r, handled with paused set or not, leaves generations, born and
\* died 0 and paused and delay as they were.
C6_ResetZeroesCounters ==
    [][last' = "SDLK_r" =>
        /\ generations' = 0
        /\ born' = 0
        /\ died' = 0
        /\ paused' = paused
        /\ delay' = delay]_vars

\* SDLK_r was handled while paused, at a delay other than the default, after
\* a generation with births and deaths
C6_Witness ==
    /\ last = "SDLK_r"
    /\ paused
    /\ delay # DEFAULT_DELAY
    /\ before.generations > 0
    /\ before.born > 0
    /\ before.died > 0

\* C7: generations is 0 when the loop starts; a tick() that runs adds exactly
\* 1; no step but that and SDLK_r changes it.
C7_GenerationsCount ==
    /\ generations = 0
    /\ [][/\ TickRan => generations' = generations + 1
          /\ last' \notin {"tick", "SDLK_r"} => generations' = generations
          /\ last' # "SDLK_r" => generations' >= generations]_vars

\* the second tick() in a row has run
C7_Witness ==
    /\ last = "tick"
    /\ before.generations = 1
    /\ generations = 2

\* C8: screen and oscreen each point to one of the two arrays, and not to the
\* same one.
C8_OneCurrent ==
    /\ screen \in {"screen1", "screen2"}
    /\ oscreen \in {"screen1", "screen2"}
    /\ screen # oscreen

\* swapscreen() has taken its else branch: screen2 was current, screen1 is
C8_Witness ==
    /\ last = "tick"
    /\ before.screen = "screen2"
    /\ screen = "screen1"

\* the surface shows grid g: every cell's block has the cell's colour
Shows(surf, g) ==
    \A row \in Rows, col \in Cols :
        surf[row][col] = IF g[row][col] THEN LifeCell ELSE DeadCell

\* C9 as claimed: in every cycle, paused or not, the current grid has been
\* plotted when the wait starts.
C9_RenderedEveryCycle == pc = "SDL_Delay" => Shows(surface, CurrentGrid)

\* C9 as amended: in a cycle with paused false the current grid and the
\* status title have been drawn when the wait starts; printscreen() with
\* paused set only sets the title and leaves the surface as it was.
C9_RenderedWhenRunning ==
    /\ [](pc = "SDL_Delay" /\ ~paused =>
            /\ Shows(surface, CurrentGrid)
            /\ window_title = <<"generation", generations, died, born>>)
    /\ [][last' = "printscreen" /\ paused =>
            /\ surface' = surface
            /\ window_title' = <<"- PAUSED -">>]_vars

\* a paused cycle after a reset: the wait starts with an older frame on the
\* surface, not the re-randomized grid
C9_Witness ==
    /\ pc = "SDL_Delay"
    /\ paused
    /\ generations = 0
    /\ surface # BlankSurface
    /\ ~Shows(surface, CurrentGrid)
    /\ window_title = <<"- PAUSED -">>

\* C10 as claimed: SDLK_r leaves the array that was not current when it was
\* handled as it was.
C10_WritesCurrentOnly ==
    [][last' = "SDLK_r" =>
        IF oscreen = "screen1" THEN screen1' = screen1
                               ELSE screen2' = screen2]_vars

\* C10 as amended: SDLK_r makes screen1 the current array, whichever was
\* current, writes cells of screen1 only and leaves screen2 as it was.
C10_WritesScreen1Only ==
    [][last' = "SDLK_r" =>
        /\ screen' = "screen1"
        /\ oscreen' = "screen2"
        /\ screen2' = screen2]_vars

\* SDLK_r was handled when screen2 was current; screen2 still holds its grid
C10_Witness ==
    /\ last = "SDLK_r"
    /\ before.screen = "screen2"
    /\ screen = "screen1"
    /\ screen2 # ZeroScreen
    /\ screen1 # screen2

\* C11: done is set only by SDL_QUIT or SDLK_q, handled in the event loop;
\* once it is set there is no printscreen(), SDL_Delay() or tick() any more,
\* the end of that event loop leaves the while loop, and main() returns 0.
C11_QuitEndsLoop ==
    [][/\ done' # done => pc = "SDL_PollEvent" /\ done'
       /\ done' # done <=> ~done /\ last' \in {"SDL_QUIT", "SDLK_q"}
       /\ done => last' \notin {"printscreen", "SDL_Delay", "tick",
                                "tick_paused"}
       /\ done /\ last' = "drained" => pc' = "SDL_Quit"
       /\ pc = "SDL_Quit" => pc' = "returned" /\ exit_status' = <<0>>
       /\ exit_status' # <<>> => pc' = "returned" /\ done]_vars

\* main() has returned 0 after a quit event
C11_Witness ==
    /\ pc = "returned"
    /\ exit_status = <<0>>
    /\ done
    /\ generations > 0

\* C12: paused is false when the loop starts; SDLK_SPACE flips it and no
\* other step changes it, so it is set exactly when the number of SDLK_SPACE
\* events handled is odd.
C12_PausedIsToggleParity ==
    /\ ~paused
    /\ [](paused <=> toggles = 1)
    /\ [][/\ last' = "SDLK_SPACE" => paused' = ~paused
          /\ last' # "SDLK_SPACE" => paused' = paused]_vars

\* the second SDLK_SPACE has been handled: RUNNING again
C12_Witness ==
    /\ last = "SDLK_SPACE"
    /\ before.paused
    /\ ~paused
    /\ toggles = 0

\* the grid whose live cells are exactly those of the set cells
GridOf(cells) == [row \in Rows |-> [col \in Cols |-> <<row, col>> \in cells]]

\* the cells that are not on the border of the grid
Interior == (1 .. (Height - 2)) \X (1 .. (Width - 2))

HorizontalLine(rc) ==
    GridOf({<<rc[1], rc[2] - 1>>, rc, <<rc[1], rc[2] + 1>>})
VerticalLine(rc) ==
    GridOf({<<rc[1] - 1, rc[2]>>, rc, <<rc[1] + 1, rc[2]>>})

\* C13: a tick() run on a grid whose only live cells are a horizontal line of
\* three centred on an interior cell leaves exactly the vertical line of three
\* through that cell, with born = 2 and died = 2.
C13_BlinkerTurns ==
    [][TickRan =>
        \A rc \in Interior :
            CurrentGrid = HorizontalLine(rc) =>
                /\ CurrentGrid' = VerticalLine(rc)
                /\ born' = 2
                /\ died' = 2]_vars

\* a tick has run on the horizontal blinker in the middle of the grid
C13_Witness ==
    /\ last = "tick"
    /\ OtherGrid = HorizontalLine(<<1, 1>>)
    /\ CurrentGrid = VerticalLine(<<1, 1>>)
    /\ born = 2
    /\ died = 2

\* the 2x2 block whose top left cell is rc
Block(rc) ==
    GridOf({rc, <<rc[1], rc[2] + 1>>, <<rc[1] + 1, rc[2]>>,
            <<rc[1] + 1, rc[2] + 1>>})

\* every place a block fits in, the edges and corners included
BlockPlaces == (0 .. (Height - 2)) \X (0 .. (Width - 2))

\* C14: a tick() run on a grid whose only live cells are a 2x2 block, placed
\* anywhere, leaves the current grid as it was with born = 0 and died = 0; the
\* grid is then such a grid again, so this holds of every tick that follows.
C14_BlockIsStill ==
    [][TickRan =>
        \A rc \in BlockPlaces :
            CurrentGrid = Block(rc) =>
                /\ CurrentGrid' = Block(rc)
                /\ born' = 0
                /\ died' = 0]_vars

\* two ticks have run on the block in the top left corner
C14_Witness ==
    /\ last = "tick"
    /\ generations = 2
    /\ before.born = 0
    /\ before.died = 0
    /\ OtherGrid = Block(<<0, 0>>)
    /\ CurrentGrid = Block(<<0, 0>>)
    /\ born = 0
    /\ died = 0

\* the number of reads tick() makes for the count of one cell, and of those
\* of them that fall outside the grid
ReadsMade(row, col) == Len(NeighbourReads(row, col))
ReadsOutside(row, col) ==
    LET reads == NeighbourReads(row, col)
    IN  Cardinality({i \in DOMAIN reads : reads[i] \notin Rows \X Cols})

\* 3 for a corner cell, 5 for another cell of the border, 8 inside
MostNeighbours(row, col) ==
    LET rowEdge == row \in {0, Height - 1}
        colEdge == col \in {0, Width - 1}
    IN  IF rowEdge /\ colEdge THEN 3
        ELSE IF rowEdge \/ colEdge THEN 5 ELSE 8

Corners == {0, Height - 1} \X {0, Width - 1}

\* every cell has as many reads as it has adjacent cells, all inside the grid
ReadsStayInside ==
    \A row \in Rows, col \in Cols :
        /\ ReadsMade(row, col) = MostNeighbours(row, col)
        /\ ReadsOutside(row, col) = 0

\* C15: for every cell of every grid, the count tick() computes is the number
\* of live adjacent cells inside the grid, at most 3 in a corner, 5 on an edge
\* and 8 inside, and none of its reads is of a cell outside the grid.
C15_CountInBounds ==
    LET m == Globals
        g == CurrentGrid
    IN  \A row \in Rows, col \in Cols :
            LET neighbours == Neighbours(m, row, col)
            IN  /\ neighbours = LiveNeighbours(g, row, col)
                /\ neighbours <= MostNeighbours(row, col)
                /\ ReadsStayInside

\* a tick has run on the grid with every cell alive: the corners counted 3
\* and live on, the other cells counted 5 or 8 and died
C15_Witness ==
    /\ last = "tick"
    /\ OtherGrid = GridOf(Rows \X Cols)
    /\ CurrentGrid = GridOf(Corners)
    /\ died = Width * Height - 4
    /\ born = 0

\* C16: no call of swapscreen() changes a cell of either array, and the
\* second of two calls in a row leaves screen and oscreen as they were before
\* the first.
C16_SwapTwiceRestores ==
    [][last' = "swapscreen" =>
        /\ screen1' = screen1
        /\ screen2' = screen2
        /\ last = "swapscreen" =>
              /\ screen' = before.screen
              /\ oscreen' = before.oscreen]_vars

\* two calls in a row, the first made when screen1 was current
C16_Witness ==
    /\ last = "swapscreen"
    /\ before.screen = "screen2"
    /\ before.oscreen = "screen1"
    /\ screen = "screen1"
    /\ oscreen = "screen2"
    /\ screen1 # ZeroScreen

\* m with the array oscreen points to holding what array holds
WithOther(m, array) ==
    IF m.oscreen = "screen1" THEN [m EXCEPT !.screen1 = array]
                             ELSE [m EXCEPT !.screen2 = array]

\* m with the two arrays, contents and roles, exchanged
Exchanged(m) ==
    [m EXCEPT !.screen1 = m.screen2, !.screen2 = m.screen1,
              !.screen = m.oscreen, !.oscreen = m.screen]

\* what a tick() leaves: the new current grid, born and died
TickResult(m) ==
    LET n == tick(m)
    IN  <<Grid(Deref(n, n.screen)), n.born, n.died>>

\* the array with every cell set
FullScreen ==
    initialize(Static, [k \in 0 .. (Width * Height - 1) |-> TRUE]).screen1

\* C17: the current grid, born and died that a tick() run with paused false
\* leaves are those a tick() leaves when, before it, the other array holds no
\* set cell or only set cells instead of what it held, and when the two
\* arrays are exchanged as well.
C17_StaleContentIrrelevant ==
    [][TickRan =>
        LET m == Globals
            result == <<CurrentGrid', born', died'>>
        IN  /\ TickResult(WithOther(m, ZeroScreen)) = result
            /\ TickResult(WithOther(m, FullScreen)) = result
            /\ TickResult(Exchanged(WithOther(m, FullScreen))) = result]_vars

\* a tick has run that wrote over the grid of two generations before, in
\* screen1, and each of the two generations changed the grid
C17_Witness ==
    /\ last = "tick"
    /\ generations = 2
    /\ screen = "screen1"
    /\ before.born + before.died > 0
    /\ born > 0
    /\ died > 0

\* the number of live cells of a grid
Population(g) == Cardinality({rc \in Rows \X Cols : g[rc[1]][rc[2]]})

\* C18: after a tick() run with paused false, the new current grid has as many
\* live cells as the old one, plus born, minus died.
C18_PopulationConserved ==
    [][TickRan =>
        Population(CurrentGrid') = Population(CurrentGrid) + born' - died']_vars

\* a tick has run that changed the number of live cells
C18_Witness ==
    /\ last = "tick"
    /\ born > 0
    /\ died > born
    /\ Population(CurrentGrid) = Population(OtherGrid) + born - died
    /\ Population(CurrentGrid) > 0

\* C19: an event returned by SDL_PollEvent() after done was set is handled
\* like any other: a reset, a pause toggle or a delay change takes effect; and
\* main() leaves the loop only when SDL_PollEvent() has returned 0.
C19_DrainGoesOnAfterQuit ==
    [][/\ done /\ pc = "SDL_PollEvent" =>
            /\ last' = "SDLK_r" =>
                  generations' = 0 /\ born' = 0 /\ died' = 0
                  /\ screen' = "screen1"
            /\ last' = "SDLK_SPACE" => paused' = ~paused
            /\ last' = "SDLK_DOWN" => delay' = delay + DelayStep
            /\ last' = "SDLK_UP" /\ delay > DelayStep =>
                  delay' = delay - DelayStep
            /\ last' = "SDLK_d" => delay' = DEFAULT_DELAY
            /\ last' # "drained" => pc' = "SDL_PollEvent" /\ done'
       /\ pc # "SDL_Quit" /\ pc' = "SDL_Quit" => done /\ last' = "drained"]_vars

\* a reset was handled after the quit event, in the same event loop
C19_Witness ==
    /\ pc = "SDL_PollEvent"
    /\ done
    /\ last = "SDLK_r"
    /\ before.generations > 0
    /\ before.screen = "screen2"
    /\ generations = 0
    /\ screen = "screen1"

=============================================================================
